---- MODULE Spec2Model ----
(***************************************************************************)
(* Model of the lex_bot orchestration core: the router                     *)
(* (ManagerAgent.classify_and_route, QueryRouter.classify), the LangGraph  *)
(* workflow of graph.py and the agent nodes it dispatches.                 *)
(***************************************************************************)
EXTENDS Integers, Sequences, FiniteSets, TLC

(***************************************************************************)
(* Bounds                                                                  *)
(***************************************************************************)
\* longest agent_tasks list the classifier returns
MaxTasks == 2
\* how often the document agent may run before the model stops the run
MaxDocRuns == 2
\* the minutes the clock advances between two calls
TickMinutes == 30
\* the clock stops here
MaxClock == 60
\* longest document list handed to add_documents
MaxDocs == 2
\* longest candidate list handed to rerank_documents
MaxCands == 2
\* largest top_n a caller passes
MaxTopN == 2
\* most results a primary search provider answers
MaxHits == 2
\* calls of _fetch_page one caller makes
MaxFetches == 2
\* the time.time() at which the clock of the scrapers stops, in half seconds
MaxTime == 12

(***************************************************************************)
(* The classifier's output (the JSON the LLM chain returns)                *)
(***************************************************************************)
\* manager.py:51
valid_agents == {"research", "explainer", "law", "case", "citation", "strategy"}

\* an agent kind outside the known set, as a classifier may invent one
UnknownKind == "judge"

AgentKinds == valid_agents \cup {UnknownKind}

\* f"{agent_name}_agent"
FullName(a) ==
    CASE a = "research"  -> "research_agent"
      [] a = "explainer" -> "explainer_agent"
      [] a = "law"       -> "law_agent"
      [] a = "case"      -> "case_agent"
      [] a = "citation"  -> "citation_agent"
      [] a = "strategy"  -> "strategy_agent"
      [] OTHER           -> "judge_agent"

\* task_id and instruction the classifier gives the i-th task of its list
TaskIdPool == <<"t1", "t2", "t3", "t4">>
InstrPool  == <<"i1", "i2", "i3", "i4">>

\* "tX" names no task of the list
DepChoices == {{}, {"t1"}, {"t2"}, {"tX"}}

\* the values the classifier may put in "complexity": absent, the two
\* enumerated values, another string, JSON null
ComplexityValues == {"absent", "simple", "complex", "moderate", "null"}

\* one element of agent_tasks: a JSON object (ok) or something else
ItemShapes ==
    {[ok |-> FALSE, agent |-> "", dependencies |-> {}]} \cup
    {[ok |-> TRUE, agent |-> a, dependencies |-> d] : a \in AgentKinds, d \in DepChoices}

RawTaskLists(shapes, n) ==
    { [i \in 1..n |-> [ok           |-> f[i].ok,
                       agent        |-> f[i].agent,
                       task_id      |-> TaskIdPool[i],
                       instruction  |-> InstrPool[i],
                       dependencies |-> f[i].dependencies]] : f \in [1..n -> shapes] }

\* raw is an output of the classifier
\* kind: the chain raised, returned JSON that is not an object, or an object
\* tasks_list: agent_tasks is a list (FALSE: JSON null)
Outputs(raw, shapes, complexities) ==
    \/ \E k \in {"raise", "nondict"} :
           raw = [kind |-> k, complexity |-> "absent", tasks_list |-> TRUE, agent_tasks |-> <<>>]
    \/ \E c \in complexities :
           raw = [kind |-> "dict", complexity |-> c, tasks_list |-> FALSE, agent_tasks |-> <<>>]
    \/ \E c \in complexities, n \in 0..MaxTasks : \E ts \in RawTaskLists(shapes, n) :
           raw = [kind |-> "dict", complexity |-> c, tasks_list |-> TRUE, agent_tasks |-> ts]

\* the classifier outputs the planner is checked on
ClassifierOutputs(raw) == Outputs(raw, ItemShapes, ComplexityValues)

\* the classifier outputs a run of the workflow is checked on: every agent
\* kind, tasks without dependencies or depending on the first task
WorkflowOutputs(raw) ==
    Outputs(raw,
            {[ok |-> TRUE, agent |-> a, dependencies |-> d] :
                 a \in AgentKinds, d \in {{}, {"t1"}}},
            {"simple", "complex", "moderate"})

(***************************************************************************)
(* ManagerAgent.classify_and_route                                         *)
(***************************************************************************)
EmptyTasks == [a \in {} |-> [task_id |-> "", instruction |-> "", dependencies |-> {}]]

\* the except branch, manager.py:92-100
RouterFailed ==
    [complexity      |-> "simple",
     selected_agents |-> <<>>,
     agent_tasks     |-> EmptyTasks]

\* result.get("complexity", "simple")
GetComplexity(raw) == IF raw.complexity = "absent" THEN "simple" ELSE raw.complexity

\* iterating JSON null taken for an empty list
RouterRaisesMutant(raw) ==
    \/ raw.kind # "dict"
    \/ \E i \in 1..Len(raw.agent_tasks) : ~raw.agent_tasks[i].ok
    \/ raw.complexity = "null"

\* the statements of the try block that raise: result.get on a non-object,
\* iterating JSON null, task_item.get on a non-object, complexity.upper()
\* on JSON null
RouterRaises(raw) ==
    \/ raw.kind # "dict"
    \/ ~raw.tasks_list
    \/ \E i \in 1..Len(raw.agent_tasks) : ~raw.agent_tasks[i].ok
    \/ raw.complexity = "null"

\* the membership test of manager.py:58 left out
IsValidAgentMutant(t) == TRUE

IsValidAgent(t) == t.agent \in valid_agents

\* the loop of manager.py:55-66
SelectedOf(raw) ==
    LET kept == SelectSeq(raw.agent_tasks, IsValidAgent)
    IN  [i \in 1..Len(kept) |-> FullName(kept[i].agent)]

AgentTasksOf(raw) ==
    LET kept == SelectSeq(raw.agent_tasks, IsValidAgent)
        keys == {FullName(kept[i].agent) : i \in 1..Len(kept)}
        last(k) == CHOOSE i \in 1..Len(kept) :
                      /\ FullName(kept[i].agent) = k
                      /\ \A j \in 1..Len(kept) : FullName(kept[j].agent) = k => j <= i
    IN  [k \in keys |-> [task_id      |-> kept[last(k)].task_id,
                         instruction  |-> kept[last(k)].instruction,
                         dependencies |-> kept[last(k)].dependencies]]

\* the case fallback made to wait for the law fallback
FallbackTasksMutant ==
    [k \in {"law_agent", "case_agent"} |->
        IF k = "law_agent"
        THEN [task_id |-> "law_fallback", instruction |-> "Find relevant statutes", dependencies |-> {}]
        ELSE [task_id |-> "case_fallback", instruction |-> "Find relevant cases",
              dependencies |-> {"law_fallback"}]]

\* manager.py:68-72
FallbackTasks ==
    [k \in {"law_agent", "case_agent"} |->
        IF k = "law_agent"
        THEN [task_id |-> "law_fallback", instruction |-> "Find relevant statutes", dependencies |-> {}]
        ELSE [task_id |-> "case_fallback", instruction |-> "Find relevant cases", dependencies |-> {}]]

classify_and_route(raw) ==
    IF RouterRaises(raw) THEN RouterFailed
    ELSE LET complexity == GetComplexity(raw)
             selected   == SelectedOf(raw)
         IN  IF complexity = "complex" /\ selected = <<>>
             THEN [complexity      |-> complexity,
                   selected_agents |-> <<"law_agent", "case_agent">>,
                   agent_tasks     |-> FallbackTasks]
             ELSE [complexity      |-> complexity,
                   selected_agents |-> selected,
                   agent_tasks     |-> AgentTasksOf(raw)]

(***************************************************************************)
(* QueryRouter.classify                                                    *)
(***************************************************************************)
\* router.py:126 and 135: the single research task, instruction = the query
ResearchFallback ==
    <<[ok |-> TRUE, agent |-> "research", task_id |-> "fallback",
       instruction |-> "query", dependencies |-> {}]>>

classify(raw) ==
    IF raw.kind # "dict"
    THEN [complexity |-> "simple", agent_tasks |-> ResearchFallback]
    ELSE [complexity  |-> IF raw.complexity \in {"simple", "complex"}
                          THEN raw.complexity ELSE "simple",
          agent_tasks |-> IF ~raw.tasks_list \/ raw.agent_tasks = <<>>
                          THEN ResearchFallback ELSE raw.agent_tasks]

\* graph.py:185-197
ValidNodes == {"research_agent", "explainer_agent", "law_agent", "case_agent",
               "citation_agent", "strategy_agent"}

IsValidNode(a) == a \in ValidNodes

route_to_agents(selected) ==
    LET routes == SelectSeq(selected, IsValidNode)
    IN  IF routes = <<>> THEN <<"law_agent", "case_agent">> ELSE routes

(***************************************************************************)
(* The planner on its own: one classifier output, both routers applied     *)
(***************************************************************************)
VARIABLES p_raw, p_pc, p_decision, p_result

pvars == <<p_raw, p_pc, p_decision, p_result>>

NoDecision == [complexity |-> "none", selected_agents |-> <<>>, agent_tasks |-> EmptyTasks]
NoResult   == [complexity |-> "none", agent_tasks |-> <<>>]

PlannerInit ==
    /\ ClassifierOutputs(p_raw)
    /\ p_pc = [manager |-> "idle", router |-> "idle"]
    /\ p_decision = NoDecision
    /\ p_result = NoResult

\* the router node of the workflow is called with this classifier output
PlanManager ==
    /\ p_pc.manager = "idle"
    /\ p_decision' = classify_and_route(p_raw)
    /\ p_pc' = [p_pc EXCEPT !.manager = "returned"]
    /\ UNCHANGED <<p_raw, p_result>>

\* QueryRouter.classify is called with this classifier output
PlanQueryRouter ==
    /\ p_pc.router = "idle"
    /\ p_result' = classify(p_raw)
    /\ p_pc' = [p_pc EXCEPT !.router = "returned"]
    /\ UNCHANGED <<p_raw, p_decision>>

PlannerNext == PlanManager \/ PlanQueryRouter

(***************************************************************************)
(* The workflow of graph.py: nodes run in supersteps; the nodes of one     *)
(* superstep run concurrently on the state the step started with, and      *)
(* their updates are merged when the last of them returns.                 *)
(***************************************************************************)
VARIABLES
    state,      \* the AgentState channels
    active,     \* nodes of the current superstep that have not returned yet
    writes,     \* updates returned by the nodes of the current superstep
    status,     \* "running", "done" (END reached) or "raised" (app.invoke raised)
    runs,       \* how many times each node has been started
    outcome,    \* how the last execution of each node ended
    synth,      \* calls of generate_response and the candidates of the last one
    classifier  \* what the classification chain answers to this run's prompt

wvars == <<state, active, writes, status, runs, outcome, synth, classifier>>

AgentNodes == {"research_agent", "explainer_agent", "law_agent", "case_agent",
               "citation_agent", "strategy_agent"}

Nodes == AgentNodes \cup {"memory_recall", "router", "document_agent",
                          "check_clarification", "manager_aggregate", "memory_store"}

\* updates of one superstep are applied in the order of the node names
NodeOrder == <<"case_agent", "check_clarification", "citation_agent", "document_agent",
               "explainer_agent", "law_agent", "manager_aggregate", "memory_recall",
               "memory_store", "research_agent", "router", "strategy_agent">>

\* what a search returns: nothing, or the fragment f1
SearchResults == {<<>>, <<"f1">>}

\* what the PDF of an uploaded file yields: no chunk, or the chunk d1
DocChunks == {<<>>, <<"d1">>}

\* the update a node returns; "" and "nowrite" stand for an absent key
NoUpdate ==
    [has_decision        |-> FALSE,
     decision            |-> NoDecision,
     selected_agents     |-> <<>>,
     has_selected        |-> FALSE,
     law_context         |-> <<>>,
     case_context        |-> <<>>,
     citation_context    |-> <<>>,
     document_context    |-> <<>>,
     tool_results        |-> <<>>,
     final_answer        |-> "",
     needs_clarification |-> "nowrite"]

\* run_query's initial_state, graph.py:251-264
InitialState(file) ==
    [uploaded_file_path  |-> file,
     complexity          |-> "none",
     selected_agents     |-> <<>>,
     agent_tasks         |-> EmptyTasks,
     law_context         |-> <<>>,
     case_context        |-> <<>>,
     citation_context    |-> <<>>,
     document_context    |-> <<>>,
     tool_results        |-> <<>>,
     final_answer        |-> "unset",
     needs_clarification |-> FALSE]

\* a slice that keeps the whole list
TopNMutant(docs, top_n) == docs

\* rerank_documents on a list shorter than top_n: candidates[:top_n]
TopN(docs, top_n) == SubSeq(docs, 1, IF Len(docs) < top_n THEN Len(docs) ELSE top_n)

\* one node's update merged into the channels: the Annotated[..., operator.add]
\* channels append, the others take the value written
ApplyUpdate(st, u) ==
    [st EXCEPT
        !.complexity          = IF u.has_decision THEN u.decision.complexity ELSE @,
        !.agent_tasks         = IF u.has_decision THEN u.decision.agent_tasks ELSE @,
        !.selected_agents     = IF u.has_decision THEN u.decision.selected_agents
                                ELSE IF u.has_selected THEN u.selected_agents ELSE @,
        !.law_context         = @ \o u.law_context,
        !.case_context        = @ \o u.case_context,
        !.citation_context    = @ \o u.citation_context,
        !.document_context    = @ \o u.document_context,
        !.tool_results        = @ \o u.tool_results,
        !.final_answer        = IF u.final_answer = "" THEN @ ELSE u.final_answer,
        !.needs_clarification = IF u.needs_clarification = "nowrite" THEN @
                                ELSE u.needs_clarification = "true"]

RECURSIVE ApplyAll(_, _, _)
ApplyAll(st, w, i) ==
    IF i > Len(NodeOrder) THEN st
    ELSE ApplyAll(IF NodeOrder[i] \in DOMAIN w THEN ApplyUpdate(st, w[NodeOrder[i]]) ELSE st,
                  w, i + 1)

\* a routing that fans a decision with selected agents out to them
route_by_complexityMutant(st) ==
    IF st.uploaded_file_path /\ st.document_context = <<>> THEN "document_agent"
    ELSE IF st.complexity = "complex" \/ st.selected_agents # <<>> THEN "check_clarification"
    ELSE "research_agent"

\* graph.py:148-157
route_by_complexity(st) ==
    IF st.uploaded_file_path /\ st.document_context = <<>> THEN "document_agent"
    ELSE IF st.complexity = "complex" THEN "check_clarification"
    ELSE "research_agent"

Range(s) == {s[i] : i \in 1..Len(s)}

\* the edges of define_graph, graph.py:144-222: the nodes triggered by node n
\* once the step's updates are applied
Successors(n, st) ==
    CASE n = "memory_recall"       -> {"router"}
      [] n = "router"              -> {route_by_complexity(st)}
      [] n = "check_clarification" -> Range(route_to_agents(st.selected_agents))
      [] n = "document_agent"      -> {"router"}
      [] n = "research_agent"      -> {"memory_store"}
      [] n = "manager_aggregate"   -> {"memory_store"}
      [] n = "memory_store"        -> {}
      [] OTHER                     -> {"manager_aggregate"}

\* node n returns update u with result r; the last node of the superstep
\* applies the step's updates and starts the next superstep
Return(n, u, r) ==
    LET w    == [m \in DOMAIN writes \cup {n} |-> IF m = n THEN u ELSE writes[m]]
        st   == ApplyAll(state, w, 1)
        next == UNION {Successors(m, st) : m \in DOMAIN w}
    IN  /\ outcome' = [outcome EXCEPT ![n] = r]
        /\ IF active = {n}
           THEN /\ state' = st
                /\ writes' = << >>
                /\ active' = next
                /\ status' = IF next = {} THEN "done" ELSE "running"
                /\ runs' = [m \in Nodes |-> IF m \in next THEN runs[m] + 1 ELSE runs[m]]
           ELSE /\ writes' = w
                /\ active' = active \ {n}
                /\ UNCHANGED <<state, status, runs>>

\* node n raises: app.invoke re-raises and the run has no final state
Raise(n) ==
    /\ outcome' = [outcome EXCEPT ![n] = "raised"]
    /\ status' = "raised"
    /\ active' = {}
    /\ writes' = << >>
    /\ UNCHANGED <<state, runs>>

Running(n) == status = "running" /\ n \in active

(***************************************************************************)
(* The nodes                                                               *)
(***************************************************************************)
\* memory_recall_node, graph.py:66-85: every failure is caught
MemoryRecall ==
    /\ Running("memory_recall")
    /\ Return("memory_recall", NoUpdate, "ok")
    /\ UNCHANGED <<synth, classifier>>

\* the router node: classify_and_route on what the chain answers.  The
\* prompt interpolates the query only (router.py:40), so every pass through
\* the router of one run asks the same question.
Router ==
    /\ Running("router")
    /\ Return("router",
              [NoUpdate EXCEPT !.has_decision = TRUE,
                               !.decision = classify_and_route(classifier)],
              "ok")
    /\ UNCHANGED <<synth, classifier>>

\* DocumentAgent.run, document_agent.py:60-137: extraction and web search
\* failures are caught; the node never writes final_answer
DocumentAgent ==
    /\ Running("document_agent")
    /\ runs["document_agent"] <= MaxDocRuns
    /\ \E chunks \in DocChunks :
          Return("document_agent",
                 [NoUpdate EXCEPT !.has_selected = TRUE,
                                  !.selected_agents = <<"document_agent">>,
                                  !.document_context = TopN(chunks, 10),
                                  !.tool_results = <<"document">>],
                 IF chunks = <<>> THEN "empty" ELSE "ok")
    /\ UNCHANGED <<synth, classifier>>

\* ResearchAgent.run, research_agent.py:65-161
ResearchAgent ==
    /\ Running("research_agent")
    /\ \E search_results \in SearchResults :
          LET all_candidates == search_results \o state.document_context
              top_results == TopN(all_candidates, 10)
          IN  \/ Return("research_agent",
                        IF state.complexity # "complex"
                        THEN [NoUpdate EXCEPT !.law_context = top_results,
                                              !.final_answer = "research_answer"]
                        ELSE [NoUpdate EXCEPT !.law_context = top_results,
                                              !.tool_results = <<"research_agent">>],
                        IF search_results = <<>> THEN "empty" ELSE "ok")
              \* session_cache.add_documents is not guarded: its embedding
              \* step raises
              \/ /\ search_results # <<>>
                 /\ Raise("research_agent")
    /\ UNCHANGED <<synth, classifier>>

\* ManagerAgent.check_needs_clarification, manager.py:216-264
CheckClarification ==
    /\ Running("check_clarification")
    /\ \/ Return("check_clarification",
                 [NoUpdate EXCEPT !.needs_clarification = "false"],
                 "ok")
       \/ Return("check_clarification",
                 [NoUpdate EXCEPT !.needs_clarification = "true",
                                  !.final_answer = "clarification"],
                 "ok")
    /\ UNCHANGED <<synth, classifier>>

\* LawAgent.run, law_agent.py:8-60
LawAgent ==
    /\ Running("law_agent")
    /\ \E primary_results \in SearchResults :
          Return("law_agent",
                 [NoUpdate EXCEPT !.law_context = TopN(primary_results, 10)],
                 IF primary_results = <<>> THEN "empty" ELSE "ok")
    /\ UNCHANGED <<synth, classifier>>

\* case_agent.py:12  state.get("case_query"): the key is not a channel of
\* AgentState and neither run_query nor a node writes it, so the agent reads
\* None ("")
case_query == ""

\* CaseAgent.run, case_agent.py:8-76: without case_query the agent returns
\* at line 14, before any tool is run
CaseAgent ==
    /\ Running("case_agent")
    /\ IF case_query = ""
       THEN Return("case_agent", NoUpdate, "no_input")
       ELSE \E all_results \in SearchResults :
               Return("case_agent",
                      [NoUpdate EXCEPT !.case_context = TopN(all_results, 10)],
                      IF all_results = <<>> THEN "empty" ELSE "ok")
    /\ UNCHANGED <<synth, classifier>>

\* CitationAgent.run, citation_agent.py:66-142: without citing cases the
\* "No citation data found." entry (109-113), else the analysis (132-142)
CitationAgent ==
    /\ Running("citation_agent")
    /\ \E citing_results \in SearchResults :
          Return("citation_agent",
                 [NoUpdate EXCEPT !.citation_context =
                      IF citing_results = <<>> THEN <<"no_citation_data">> ELSE <<"citation">>],
                 IF citing_results = <<>> THEN "empty" ELSE "ok")
    /\ UNCHANGED <<synth, classifier>>

\* LegalStrategyAgent.run, strategy_agent.py:79-132
StrategyAgent ==
    /\ Running("strategy_agent")
    /\ \E law_results \in SearchResults, case_results \in SearchResults :
          LET top_results == TopN(law_results \o case_results, 15)
          IN  Return("strategy_agent",
                     [NoUpdate EXCEPT !.tool_results = <<"strategy">>,
                                      !.law_context = TopN(top_results, 5),
                                      !.case_context = IF Len(top_results) > 5
                                                       THEN SubSeq(TopN(top_results, 10), 6,
                                                                   Len(TopN(top_results, 10)))
                                                       ELSE <<>>],
                     IF top_results = <<>> THEN "empty" ELSE "ok")
    /\ UNCHANGED <<synth, classifier>>

\* ExplainerAgent.run, explainer_agent.py:75-143
ExplainerAgent ==
    /\ Running("explainer_agent")
    /\ Return("explainer_agent", [NoUpdate EXCEPT !.tool_results = <<"explainer">>], "ok")
    /\ UNCHANGED <<synth, classifier>>

\* ManagerAgent.generate_response, manager.py:266-372: the generation call
\* of line 365 is not guarded
ManagerAggregate ==
    /\ Running("manager_aggregate")
    /\ LET all_docs == state.law_context \o state.case_context \o state.document_context
       IN  /\ synth' = [calls |-> synth.calls + 1, all_docs |-> all_docs,
                        top_docs |-> TopN(all_docs, 10)]
           /\ \/ Return("manager_aggregate",
                         [NoUpdate EXCEPT !.final_answer = "aggregate_answer"], "ok")
              \/ Raise("manager_aggregate")
    /\ UNCHANGED classifier

\* memory_store_node, graph.py:88-111: every failure is caught
MemoryStore ==
    /\ Running("memory_store")
    /\ Return("memory_store", NoUpdate, "ok")
    /\ UNCHANGED <<synth, classifier>>

WorkflowInit ==
    /\ \E file \in BOOLEAN : state = InitialState(file)
    /\ WorkflowOutputs(classifier)
    /\ active = {"memory_recall"}
    /\ writes = << >>
    /\ status = "running"
    /\ runs = [n \in Nodes |-> IF n = "memory_recall" THEN 1 ELSE 0]
    /\ outcome = [n \in Nodes |-> "none"]
    /\ synth = [calls |-> 0, all_docs |-> <<>>, top_docs |-> <<>>]

WorkflowNext ==
    \/ MemoryRecall
    \/ Router
    \/ DocumentAgent
    \/ ResearchAgent
    \/ CheckClarification
    \/ LawAgent
    \/ CaseAgent
    \/ CitationAgent
    \/ StrategyAgent
    \/ ExplainerAgent
    \/ ManagerAggregate
    \/ MemoryStore

(***************************************************************************)
(* The session cache (tools/session_cache.py): one SessionCache object,    *)
(* its public methods called one after the other                           *)
(***************************************************************************)
\* config.py:52 SESSION_CACHE_TTL_MINUTES
SESSION_CACHE_TTL_MINUTES == 30

SessionIds == {"s1", "s2"}
FilePaths == {"f1"}
Chunks == <<"c1">>

\* a document as the search tools return it: the text is under "text",
\* "snippet" or "content"; "" stands for an absent or empty key
Document(text, snippet, content, url) ==
    [text |-> text, snippet |-> snippet, content |-> content, url |-> url]

\* two documents with the same text under different keys
TextDocs ==
    { Document("a", "", "", "u1"),
      Document("", "a", "", "u2") }

\* a document without text
NoTextDoc == Document("", "", "", "u3")

\* the document lists handed to add_documents
DocLists(n) ==
    UNION { [1..k -> TextDocs] : k \in 0..n }
        \cup { <<NoTextDoc>>, <<NoTextDoc, Document("a", "", "", "u1")>> }

\* session_cache.py:110  doc.get(text_key, "") or doc.get("snippet", "") or doc.get("content", "")
TextOf(doc) ==
    IF doc.text # "" THEN doc.text
    ELSE IF doc.snippet # "" THEN doc.snippet
    ELSE doc.content

\* session_cache.py:64-66  SHA256 of the text: equal exactly for equal texts
get_content_hash(text) == <<"sha256", text>>

\* session_cache.py:121  {**doc, "_hash": content_hash}
Stored(doc, h) ==
    [text |-> doc.text, snippet |-> doc.snippet, content |-> doc.content,
     url |-> doc.url, hash |-> h]

VARIABLES
    sessions,     \* self._sessions: session id -> documents, index size, last_accessed
    hashes,       \* self._hashes: session id -> set of content hashes
    file_paths,   \* self._file_paths: session id -> file path
    file_chunks,  \* self._file_chunks: file path -> chunks
    initialized,  \* self._initialized
    now,          \* datetime.now(), in minutes
    returned      \* the last call and what it returned

cvars == <<sessions, hashes, file_paths, file_chunks, initialized, now, returned>>

\* a call and its outcome: the value returned (0 for None, 1 for True), or the
\* call raised; skipped counts the documents add_documents logged as duplicates
Ret(op, value, raised) == [op |-> op, value |-> value, raised |-> raised, skipped |-> 0]

\* a function without the key k
Without(f, k) == [x \in DOMAIN f \ {k} |-> f[x]]

\* session_cache.py:68-81, the _sessions dictionary afterwards
SessionsAfterGet(sid) ==
    LET created == IF sid \in DOMAIN sessions THEN sessions
                   ELSE sessions @@ (sid :> [documents |-> <<>>, index |-> 0,
                                             last_accessed |-> now])
    IN  [created EXCEPT ![sid].last_accessed = now]

\* session_cache.py:78, the _hashes dictionary afterwards
HashesAfterGet(sid) ==
    IF sid \in DOMAIN sessions THEN hashes ELSE hashes @@ (sid :> {})

RECURSIVE Scan(_, _, _)
RECURSIVE ScanMutant(_, _, _)

\* the loop of add_documents without the membership test of line 116
ScanMutant(documents, i, acc) ==
    IF i > Len(documents) THEN acc
    ELSE LET text == TextOf(documents[i])
             content_hash == get_content_hash(text)
         IN  IF text = ""
             THEN ScanMutant(documents, i + 1, acc)
             ELSE ScanMutant(documents, i + 1,
                      [acc EXCEPT !.seen = @ \cup {content_hash},
                                  !.new_docs = Append(@, Stored(documents[i], content_hash))])

\* session_cache.py:109-123: the loop over documents from the i-th on; acc
\* holds the hashes of the session, the documents to store and the number of
\* documents skipped as duplicates (the debug log of line 117)
Scan(documents, i, acc) ==
    IF i > Len(documents) THEN acc
    ELSE LET text == TextOf(documents[i])
             content_hash == get_content_hash(text)
         IN  IF text = ""
             THEN Scan(documents, i + 1, acc)
             ELSE IF content_hash \in acc.seen
             THEN Scan(documents, i + 1, [acc EXCEPT !.skipped = @ + 1])
             ELSE Scan(documents, i + 1,
                      [acc EXCEPT !.seen = @ \cup {content_hash},
                                  !.new_docs = Append(@, Stored(documents[i], content_hash))])

\* session_cache.py:83-134
AddDocuments ==
    \E sid \in SessionIds, documents \in DocLists(MaxDocs) :
        IF ~initialized
        THEN /\ returned' = Ret("add_documents", 0, FALSE)
             /\ UNCHANGED <<sessions, hashes, file_paths, file_chunks, initialized, now>>
        ELSE LET s1 == SessionsAfterGet(sid)
                 h1 == HashesAfterGet(sid)
                 r  == Scan(documents, 1, [seen |-> h1[sid], new_docs |-> <<>>, skipped |-> 0])
             IN  /\ hashes' = [h1 EXCEPT ![sid] = r.seen]
                 /\ \/ /\ r.new_docs = <<>>
                       /\ sessions' = s1
                       /\ returned' = [Ret("add_documents", 0, FALSE) EXCEPT !.skipped = r.skipped]
                    \/ \* the embeddings are computed and stored
                       /\ r.new_docs # <<>>
                       /\ sessions' = [s1 EXCEPT
                              ![sid].documents = s1[sid].documents \o r.new_docs,
                              ![sid].index = s1[sid].index + Len(r.new_docs)]
                       /\ returned' = [Ret("add_documents", Len(r.new_docs), FALSE)
                                          EXCEPT !.skipped = r.skipped]
                    \/ \* self._model.encode raises (line 129)
                       /\ r.new_docs # <<>>
                       /\ sessions' = s1
                       /\ returned' = [Ret("add_documents", 0, TRUE) EXCEPT !.skipped = r.skipped]
                 /\ UNCHANGED <<file_paths, file_chunks, initialized, now>>

\* session_cache.py:136-181: the number of results
Search ==
    \E sid \in SessionIds :
        LET top_k == 5 IN
        /\ IF initialized /\ sid \in DOMAIN sessions
           THEN /\ sessions' = SessionsAfterGet(sid)
                /\ returned' = Ret("search", IF top_k < Len(sessions[sid].documents)
                                          THEN top_k ELSE Len(sessions[sid].documents), FALSE)
           ELSE /\ sessions' = sessions
                /\ returned' = Ret("search", 0, FALSE)
        /\ UNCHANGED <<hashes, file_paths, file_chunks, initialized, now>>

\* session_cache.py:189-193
SetFilePath ==
    \E sid \in SessionIds, file_path \in FilePaths :
        /\ sessions' = SessionsAfterGet(sid)
        /\ hashes' = HashesAfterGet(sid)
        /\ file_paths' = [x \in DOMAIN file_paths \cup {sid} |->
                              IF x = sid THEN file_path ELSE file_paths[x]]
        /\ returned' = Ret("set_file_path", 0, FALSE)
        /\ UNCHANGED <<file_chunks, initialized, now>>

\* session_cache.py:199-203
SetFileChunks ==
    \E file_path \in FilePaths :
        /\ file_chunks' = [x \in DOMAIN file_chunks \cup {file_path} |->
                               IF x = file_path THEN Chunks ELSE file_chunks[x]]
        /\ returned' = Ret("set_file_chunks", 0, FALSE)
        /\ UNCHANGED <<sessions, hashes, file_paths, initialized, now>>

\* session_cache.py:214-229 on the four dictionaries c
clear_session(c, sid) ==
    LET paths_has == sid \in DOMAIN c.file_paths
        file_path == c.file_paths[sid]
    IN  [sessions    |-> Without(c.sessions, sid),
         hashes      |-> Without(c.hashes, sid),
         file_chunks |-> IF paths_has THEN Without(c.file_chunks, file_path)
                         ELSE c.file_chunks,
         file_paths  |-> Without(c.file_paths, sid)]

\* the dictionaries of the cache as one record
Dicts ==
    [sessions |-> sessions, hashes |-> hashes,
     file_paths |-> file_paths, file_chunks |-> file_chunks]

\* session_cache.py:214-229
ClearSession ==
    \E sid \in SessionIds :
        LET c == clear_session(Dicts, sid)
        IN  /\ sessions' = c.sessions
            /\ hashes' = c.hashes
            /\ file_paths' = c.file_paths
            /\ file_chunks' = c.file_chunks
            /\ returned' = Ret("clear_session", 1, FALSE)
            /\ UNCHANGED <<initialized, now>>

\* session_cache.py:240-242
Expired ==
    { sid \in DOMAIN sessions :
          now - sessions[sid].last_accessed > SESSION_CACHE_TTL_MINUTES }

\* session_cache.py:244-245
RECURSIVE ClearAll(_, _)
ClearAll(c, expired) ==
    IF expired = {} THEN c
    ELSE LET sid == CHOOSE x \in expired : TRUE
         IN  ClearAll(clear_session(c, sid), expired \ {sid})

\* session_cache.py:231-250
CleanupExpired ==
    LET c == ClearAll(Dicts, Expired)
    IN  /\ sessions' = c.sessions
        /\ hashes' = c.hashes
        /\ file_paths' = c.file_paths
        /\ file_chunks' = c.file_chunks
        /\ returned' = Ret("cleanup_expired", Cardinality(Expired), FALSE)
        /\ UNCHANGED <<initialized, now>>

\* time passes between two calls
Tick ==
    /\ now + TickMinutes <= MaxClock
    /\ now' = now + TickMinutes
    /\ UNCHANGED <<sessions, hashes, file_paths, file_chunks, initialized, returned>>

NoCall == Ret("none", 0, FALSE)

\* session_cache.py:32-43: the cache after SessionCache(); _init_dependencies
\* leaves _initialized False when faiss or the embedding model is missing
CacheInit ==
    /\ sessions = << >>
    /\ hashes = << >>
    /\ file_paths = << >>
    /\ file_chunks = << >>
    /\ initialized \in BOOLEAN
    /\ now = 0
    /\ returned = NoCall

CacheNext ==
    \/ AddDocuments
    \/ Search
    \/ SetFilePath
    \/ SetFileChunks
    \/ ClearSession
    \/ CleanupExpired
    \/ Tick

CacheIdle ==
    /\ sessions = << >>
    /\ hashes = << >>
    /\ file_paths = << >>
    /\ file_chunks = << >>
    /\ initialized = FALSE
    /\ now = 0
    /\ returned = NoCall

(***************************************************************************)
(* add_documents called by two threads for the same session: the method    *)
(* takes no lock, so the threads interleave between its statements         *)
(***************************************************************************)
Threads == {"t1", "t2"}

VARIABLES
    r_sessions,  \* self._sessions[session_id]: 0 (no key) or the dictionary it refers to
    r_dicts,     \* the session dictionaries created so far: their "documents" lists
    r_hashes,    \* self._hashes[session_id]: the hash set, or no key
    thr          \* per thread: position in add_documents and its local variables

rvars == <<r_sessions, r_dicts, r_hashes, thr>>

NoKey == [present |-> FALSE, set |-> {}]

\* the local variables of a call of add_documents(session_id, documents)
Locals(documents) ==
    [pc |-> "get_session", documents |-> documents, i |-> 1, session |-> 0,
     new_docs |-> <<>>, added_count |-> 0, value |-> 0]

\* session_cache.py:70  if session_id not in self._sessions
GetSessionTest(t) ==
    /\ thr[t].pc = "get_session"
    /\ thr' = [thr EXCEPT ![t].pc = IF r_sessions = 0 THEN "create" ELSE "touch"]
    /\ UNCHANGED <<r_sessions, r_dicts, r_hashes>>

\* session_cache.py:71-77  self._sessions[session_id] = {...}
CreateSession(t) ==
    /\ thr[t].pc = "create"
    /\ r_dicts' = Append(r_dicts, <<>>)
    /\ r_sessions' = Len(r_dicts) + 1
    /\ thr' = [thr EXCEPT ![t].pc = "create_hashes"]
    /\ UNCHANGED r_hashes

\* session_cache.py:78  self._hashes[session_id] = set()
CreateHashes(t) ==
    /\ thr[t].pc = "create_hashes"
    /\ r_hashes' = [present |-> TRUE, set |-> {}]
    /\ thr' = [thr EXCEPT ![t].pc = "touch"]
    /\ UNCHANGED <<r_sessions, r_dicts>>

\* session_cache.py:80-81 and 104  session = self._sessions[session_id]
Touch(t) ==
    /\ thr[t].pc = "touch"
    /\ thr' = [thr EXCEPT ![t].pc = "loop", ![t].session = r_sessions]
    /\ UNCHANGED <<r_sessions, r_dicts, r_hashes>>

\* session_cache.py:109-118: the next document, up to the membership test
LoopTest(t) ==
    LET l == thr[t]
        text == TextOf(l.documents[l.i])
    IN  /\ l.pc = "loop"
        /\ thr' = [thr EXCEPT ![t] =
               IF l.i > Len(l.documents) THEN [l EXCEPT !.pc = "encode"]
               ELSE IF text = "" THEN [l EXCEPT !.i = @ + 1]
               ELSE IF ~r_hashes.present THEN [l EXCEPT !.pc = "raised"]
               ELSE IF get_content_hash(text) \in r_hashes.set THEN [l EXCEPT !.i = @ + 1]
               ELSE [l EXCEPT !.pc = "loop_add"]]
        /\ UNCHANGED <<r_sessions, r_dicts, r_hashes>>

\* session_cache.py:120-123
LoopAdd(t) ==
    LET l == thr[t]
        content_hash == get_content_hash(TextOf(l.documents[l.i]))
    IN  /\ l.pc = "loop_add"
        /\ IF r_hashes.present
           THEN /\ r_hashes' = [r_hashes EXCEPT !.set = @ \cup {content_hash}]
                /\ thr' = [thr EXCEPT ![t] =
                       [l EXCEPT !.pc = "loop", !.i = @ + 1,
                                 !.new_docs = Append(@, Stored(l.documents[l.i], content_hash)),
                                 !.added_count = @ + 1]]
           ELSE /\ r_hashes' = r_hashes
                /\ thr' = [thr EXCEPT ![t].pc = "raised"]
        /\ UNCHANGED <<r_sessions, r_dicts>>

\* session_cache.py:125-134
Encode(t) ==
    LET l == thr[t]
    IN  /\ l.pc = "encode"
        /\ IF l.new_docs = <<>>
           THEN /\ r_dicts' = r_dicts
                /\ thr' = [thr EXCEPT ![t].pc = "returned", ![t].value = 0]
           ELSE /\ r_dicts' = [r_dicts EXCEPT ![l.session] = @ \o l.new_docs]
                /\ thr' = [thr EXCEPT ![t].pc = "returned", ![t].value = l.added_count]
        /\ UNCHANGED <<r_sessions, r_hashes>>

\* the session does not exist yet, or exists without documents; both calls
\* are about to start
RaceInit ==
    /\ \/ r_sessions = 0 /\ r_dicts = <<>> /\ r_hashes = NoKey
       \/ r_sessions = 1 /\ r_dicts = << <<>> >> /\ r_hashes = [present |-> TRUE, set |-> {}]
    /\ \E d1, d2 \in DocLists(MaxDocs) :
           thr = [t \in Threads |-> Locals(IF t = "t1" THEN d1 ELSE d2)]

RaceNext ==
    \E t \in Threads :
        \/ GetSessionTest(t)
        \/ CreateSession(t)
        \/ CreateHashes(t)
        \/ Touch(t)
        \/ LoopTest(t)
        \/ LoopAdd(t)
        \/ Encode(t)

RaceIdle ==
    /\ r_sessions = 0
    /\ r_dicts = <<>>
    /\ r_hashes = NoKey
    /\ thr = [t \in Threads |-> Locals(<<>>)]

(***************************************************************************)
(* The reranker (tools/reranker.py): rerank_documents as a function of its *)
(* arguments, of the state of the model and of the scores it predicts.     *)
(* Scores are in thousandths.                                              *)
(***************************************************************************)
\* reranker.py:55  the neutral score 0.5
NeutralScore == 500

\* raw scores the cross-encoder predicts
RawScores == {-1, 0, 1}

\* reranker.py:38-39  1 / (1 + exp(-x)), rounded to thousandths
sigmoid(x) == CASE x = -1 -> 269 [] x = 0 -> 500 [] x = 1 -> 731

\* thresholds a caller may pass; given = FALSE is threshold=None
Thresholds ==
    { [given |-> FALSE, value |-> 0] } \cup
    { [given |-> TRUE, value |-> v] : v \in {300, 500, 700} }

\* the get_reranker() of this call returns None ("unavailable"), or a model
\* whose prediction succeeds ("available") or raises ("fails")
Modes == {"unavailable", "available", "fails"}

\* a candidate: scored says whether it has a 'rerank_score' key. A candidate
\* comes unscored from a search, or from an earlier call: with the neutral
\* score, or with a predicted score if the model had been loaded by then
\* (a loaded model stays loaded, reranker.py:21-30)
Candidate(id, scored, score) == [id |-> id, scored |-> scored, rerank_score |-> score]

EarlierScores(mode) ==
    { [scored |-> FALSE, score |-> 0], [scored |-> TRUE, score |-> NeutralScore] } \cup
    IF mode = "unavailable" THEN {} ELSE { [scored |-> TRUE, score |-> sigmoid(1)] }

CandidateLists(mode, n) ==
    UNION { { [i \in 1..k |-> Candidate(i, e[i].scored, e[i].score)] :
                e \in [1..k -> EarlierScores(mode)] } : k \in 0..n }

\* the arguments of one call, the mode of the model and, if it predicts, the
\* raw scores; assigned is the number of candidates that got their score
\* before the exception of a failing call (float() or _sigmoid raising in the
\* loop of lines 72-74; 0 if predict itself raised)
RerankCalls(call) ==
    \E m \in Modes : \E c \in CandidateLists(m, MaxCands) :
        \E n \in 0..MaxTopN, th \in Thresholds,
           raw \in IF m = "unavailable" THEN { [i \in 1..Len(c) |-> 0] }
                   ELSE [1..Len(c) -> RawScores],
           a \in IF m = "fails" /\ Len(c) > 0 THEN 0..(Len(c) - 1) ELSE {0} :
             call = [candidates |-> c, top_n |-> n, threshold |-> th, mode |-> m,
                     raw_scores |-> raw, assigned |-> a]

\* reranker.py:53-55
AssignNeutral(candidates) ==
    [i \in 1..Len(candidates) |->
        IF candidates[i].scored THEN candidates[i]
        ELSE Candidate(candidates[i].id, TRUE, NeutralScore)]

\* reranker.py:72-74 for the first n candidates
AssignScores(candidates, raw_scores, n) ==
    [i \in 1..Len(candidates) |->
        IF i <= n THEN Candidate(candidates[i].id, TRUE, sigmoid(raw_scores[i]))
        ELSE candidates[i]]

\* c put into the list sorted by descending score, behind the elements of
\* the same score
RECURSIVE Insert(_, _)
Insert(c, sorted) ==
    IF sorted = <<>> THEN <<c>>
    ELSE IF Head(sorted).rerank_score >= c.rerank_score
         THEN <<Head(sorted)>> \o Insert(c, Tail(sorted))
         ELSE <<c>> \o sorted

\* reranker.py:77  candidates.sort(key=..., reverse=True): stable
RECURSIVE SortByScore(_, _)
SortByScore(candidates, n) ==
    IF n = 0 THEN <<>> ELSE Insert(candidates[n], SortByScore(candidates, n - 1))

\* reranker.py:80-81
Filter(candidates, threshold) ==
    IF threshold.given
    THEN SelectSeq(candidates, LAMBDA c : c.rerank_score >= threshold.value)
    ELSE candidates

\* the fallback that returns the last top_n candidates
FallbackMutant(candidates, top_n) ==
    SubSeq(AssignNeutral(candidates),
           IF Len(candidates) < top_n THEN 1 ELSE Len(candidates) - top_n + 1,
           Len(candidates))

\* reranker.py:50-56
Fallback(candidates, top_n) == TopN(AssignNeutral(candidates), top_n)

\* reranker.py:41-87
rerank_documents(call) ==
    IF call.candidates = <<>> THEN <<>>
    ELSE IF call.mode = "unavailable" THEN Fallback(call.candidates, call.top_n)
    ELSE IF call.mode = "fails"
    THEN TopN(AssignScores(call.candidates, call.raw_scores, call.assigned), call.top_n)
    ELSE LET scored == AssignScores(call.candidates, call.raw_scores, Len(call.candidates))
             sorted == SortByScore(scored, Len(scored))
         IN  TopN(Filter(sorted, call.threshold), call.top_n)

VARIABLES
    rr_call,    \* the call of rerank_documents
    rr_result   \* whether it has returned, and the list it returned

kvars == <<rr_call, rr_result>>

Pending == [returned |-> FALSE, list |-> <<>>]

RerankInit ==
    /\ RerankCalls(rr_call)
    /\ rr_result = Pending

RerankDocuments ==
    /\ ~rr_result.returned
    /\ rr_result' = [returned |-> TRUE, list |-> rerank_documents(rr_call)]
    /\ UNCHANGED rr_call

RerankNext == RerankDocuments

RerankIdle ==
    /\ rr_call = [candidates |-> <<>>, top_n |-> 0, threshold |-> [given |-> FALSE, value |-> 0],
                  mode |-> "unavailable", raw_scores |-> <<>>, assigned |-> 0]
    /\ rr_result = Pending

(***************************************************************************)
(* The search cascade: SearchTool.run (tools/db_search.py) and             *)
(* WebSearchTool.run (tools/web_search.py)                                 *)
(***************************************************************************)
Urls == {"", "u1", "u2"}

\* one result of a provider as its _search method builds it: the provider
\* and the rank stand for the title; "none" is a result without 'source' key
Result(provider, rank, url) ==
    [title |-> <<provider, rank>>, url |-> url, source |-> "none"]

\* what a provider can answer: up to n results; a provider that raises, or
\* has no API key, answers [] (web_search.py:46-48, 51-52, 82-83, 116-117)
Answers(provider, n) ==
    UNION { { [i \in 1..k |-> Result(provider, i, u[i])] : u \in [1..k -> Urls] } : k \in 0..n }

\* what the two fallback providers can answer
FallbackAnswers(provider) ==
    { <<>>, <<Result(provider, 1, "u1")>>, <<Result(provider, 1, "")>> }

\* db_search.py:104-105  the local store is skipped: db_results = []
db_results == <<>>

\* the world of one search: whether a Tavily client is configured and what
\* each provider answers when it is asked
Worlds(w) ==
    \E tc \in BOOLEAN, d \in Answers("ddg", MaxHits), t \in Answers("tavily", MaxHits),
       s \in FallbackAnswers("serper"), g \in FallbackAnswers("google") :
        w = [tavily_client |-> tc, ddg |-> d, tavily |-> t, serper |-> s, google |-> g]

VARIABLES
    world,   \* the providers' answers to this query
    ws       \* the run: position, providers called so far, local variables

svars == <<world, ws>>

\* web_search.py:208, 219  for r in res: r['source'] = name
Mark(res, name) == [i \in 1..Len(res) |-> [res[i] EXCEPT !.source = name]]

RECURSIVE Deduplicate(_, _, _)
RECURSIVE DeduplicateMutant(_, _, _)

\* the loop of lines 227-231 without the test on seen_urls
DeduplicateMutant(all_results, i, acc) ==
    IF i > Len(all_results) THEN acc.unique_results
    ELSE LET u == all_results[i].url
         IN  IF u # ""
             THEN DeduplicateMutant(all_results, i + 1,
                      [seen_urls |-> acc.seen_urls \cup {u},
                       unique_results |-> Append(acc.unique_results, all_results[i])])
             ELSE DeduplicateMutant(all_results, i + 1, acc)

\* web_search.py:225-231
Deduplicate(all_results, i, acc) ==
    IF i > Len(all_results) THEN acc.unique_results
    ELSE LET u == all_results[i].url
         IN  IF u # "" /\ u \notin acc.seen_urls
             THEN Deduplicate(all_results, i + 1,
                      [seen_urls |-> acc.seen_urls \cup {u},
                       unique_results |-> Append(acc.unique_results, all_results[i])])
             ELSE Deduplicate(all_results, i + 1, acc)

\* the chain that asks Google SERP whatever Serper answered
AfterSerperMutant(results) == "google"

\* web_search.py:238  if not results
AfterSerper(results) == IF results = <<>> THEN "google" ELSE "scrape"

\* web_search.py:245  the URLs to scrape
ScrapeCandidates(unique_results) ==
    LET with_url == SelectSeq(unique_results, LAMBDA r : r.url # "")
    IN  [i \in 1..(IF Len(with_url) < 7 THEN Len(with_url) ELSE 7) |-> with_url[i].url]

NotStarted ==
    [pc |-> "start", calls |-> {}, all_results |-> <<>>, unique_results |-> <<>>,
     scrape_candidates |-> <<>>]

\* db_search.py:97-117
SearchToolRun ==
    /\ ws.pc = "start"
    /\ IF db_results # <<>>
       THEN ws' = [ws EXCEPT !.pc = "done", !.unique_results = db_results]
       ELSE ws' = [ws EXCEPT !.pc = "parallel", !.calls = @ \cup {"web_search_tool.run"}]
    /\ UNCHANGED world

\* web_search.py:192-222
ParallelPrimary ==
    /\ ws.pc = "parallel"
    /\ ws' = [ws EXCEPT
           !.pc = "deduplicate",
           !.calls = @ \cup {"_ddgs_search"} \cup
                     (IF world.tavily_client THEN {"_tavily_search"} ELSE {}),
           !.all_results = Mark(world.ddg, "DuckDuckGo") \o
                           (IF world.tavily_client THEN Mark(world.tavily, "Tavily")
                            ELSE <<>>)]
    /\ UNCHANGED world

\* web_search.py:224-234
DeduplicateByUrl ==
    /\ ws.pc = "deduplicate"
    /\ LET unique_results == Deduplicate(ws.all_results, 1,
                                 [seen_urls |-> {}, unique_results |-> <<>>])
       IN  ws' = [ws EXCEPT !.unique_results = unique_results,
                            !.pc = IF unique_results = <<>> THEN "serper" ELSE "scrape"]
    /\ UNCHANGED world

\* web_search.py:237-238
SerperFallback ==
    /\ ws.pc = "serper"
    /\ ws' = [ws EXCEPT !.calls = @ \cup {"_serper_search"},
                        !.unique_results = world.serper,
                        !.pc = AfterSerper(world.serper)]
    /\ UNCHANGED world

\* web_search.py:239-241
GoogleFallback ==
    /\ ws.pc = "google"
    /\ ws' = [ws EXCEPT !.calls = @ \cup {"_google_serp_search"},
                        !.unique_results = world.google,
                        !.pc = "scrape"]
    /\ UNCHANGED world

\* web_search.py:243-250
ScrapeAndReturn ==
    /\ ws.pc = "scrape"
    /\ ws' = [ws EXCEPT !.scrape_candidates = ScrapeCandidates(ws.unique_results),
                        !.pc = "done"]
    /\ UNCHANGED world

SearchInit ==
    /\ Worlds(world)
    /\ ws = NotStarted

SearchNext ==
    \/ SearchToolRun
    \/ ParallelPrimary
    \/ DeduplicateByUrl
    \/ SerperFallback
    \/ GoogleFallback
    \/ ScrapeAndReturn

SearchIdle ==
    /\ world = [tavily_client |-> FALSE, ddg |-> <<>>, tavily |-> <<>>,
                serper |-> <<>>, google |-> <<>>]
    /\ ws = NotStarted

(***************************************************************************)
(* The rate limit of the scrapers (tools/indian_kanoon.py, tools/ecourts.py)*)
(* Each scraper object keeps last_request_time; callers are threads that   *)
(* call _fetch_page on one of the objects.  Time is in half seconds.       *)
(***************************************************************************)
\* config.py:46  SCRAPE_DELAY_SECONDS = 2.5, in half seconds
SCRAPE_DELAY_SECONDS == 5

\* one IndianKanoonScraper and one ECourtsSearchTool
Scrapers == {"kanoon", "ecourts"}

Callers == {"c1", "c2"}

VARIABLES
    clock,              \* time.time()
    last_request_time,  \* self.last_request_time of each scraper
    fetched,            \* the times at which each scraper issued a request
    caller              \* where each caller is in _fetch_page

tvars == <<clock, last_request_time, fetched, caller>>

NotFetching == [pc |-> "idle", scraper |-> "kanoon", wake |-> 0, calls |-> 0]

\* a caller enters _fetch_page of a scraper (indian_kanoon.py:64-66,
\* ecourts.py:58-60)
FetchPage(c) ==
    /\ caller[c].pc = "idle"
    /\ caller[c].calls < MaxFetches
    /\ \E s \in Scrapers :
          caller' = [caller EXCEPT ![c] = [pc |-> "rate_limit", scraper |-> s, wake |-> 0,
                                           calls |-> @.calls + 1]]
    /\ UNCHANGED <<clock, last_request_time, fetched>>

\* indian_kanoon.py:57-61, ecourts.py:53-55: elapsed is computed from the
\* last_request_time read now; the caller sleeps for delay - elapsed
RateLimitRead(c) ==
    /\ caller[c].pc = "rate_limit"
    /\ LET elapsed == clock - last_request_time[caller[c].scraper]
       IN  caller' = [caller EXCEPT ![c].pc = IF elapsed < SCRAPE_DELAY_SECONDS
                                              THEN "sleeping" ELSE "stamp",
                                    ![c].wake = IF elapsed < SCRAPE_DELAY_SECONDS
                                                THEN clock + (SCRAPE_DELAY_SECONDS - elapsed)
                                                ELSE 0]
    /\ UNCHANGED <<clock, last_request_time, fetched>>

\* time.sleep returns once the time asked for has passed
Wake(c) ==
    /\ caller[c].pc = "sleeping"
    /\ clock >= caller[c].wake
    /\ caller' = [caller EXCEPT ![c].pc = "stamp"]
    /\ UNCHANGED <<clock, last_request_time, fetched>>

\* indian_kanoon.py:62 and 68, ecourts.py:56 and 62: the time is stored and
\* the request is issued
StampAndGet(c) ==
    /\ caller[c].pc = "stamp"
    /\ last_request_time' = [last_request_time EXCEPT ![caller[c].scraper] = clock]
    /\ fetched' = [fetched EXCEPT ![caller[c].scraper] = Append(@, clock)]
    /\ caller' = [caller EXCEPT ![c].pc = "idle"]
    /\ UNCHANGED clock

\* half a second passes
ClockTick ==
    /\ clock < MaxTime
    /\ clock' = clock + 1
    /\ UNCHANGED <<last_request_time, fetched, caller>>

\* indian_kanoon.py:47, ecourts.py:44: last_request_time = 0, while
\* time.time() is far beyond the delay
RateInit ==
    /\ clock = SCRAPE_DELAY_SECONDS
    /\ last_request_time = [s \in Scrapers |-> 0]
    /\ fetched = [s \in Scrapers |-> <<>>]
    /\ caller = [c \in Callers |-> NotFetching]

RateNext ==
    \/ \E c \in Callers : FetchPage(c)
    \/ \E c \in Callers : RateLimitRead(c)
    \/ \E c \in Callers : Wake(c)
    \/ \E c \in Callers : StampAndGet(c)
    \/ ClockTick

RateIdle ==
    /\ clock = 0
    /\ last_request_time = [s \in Scrapers |-> 0]
    /\ fetched = [s \in Scrapers |-> <<>>]
    /\ caller = [c \in Callers |-> NotFetching]

(***************************************************************************)
(* The specifications: each one runs one part and keeps the others idle    *)
(***************************************************************************)
vars == <<pvars, wvars, cvars, rvars, kvars, svars, tvars>>

PlannerIdle ==
    /\ p_raw = [kind |-> "raise", complexity |-> "absent", tasks_list |-> TRUE, agent_tasks |-> <<>>]
    /\ p_pc = [manager |-> "idle", router |-> "idle"]
    /\ p_decision = NoDecision
    /\ p_result = NoResult

WorkflowIdle ==
    /\ state = InitialState(FALSE)
    /\ classifier = [kind |-> "raise", complexity |-> "absent", tasks_list |-> TRUE, agent_tasks |-> <<>>]
    /\ active = {}
    /\ writes = << >>
    /\ status = "idle"
    /\ runs = [n \in Nodes |-> 0]
    /\ outcome = [n \in Nodes |-> "none"]
    /\ synth = [calls |-> 0, all_docs |-> <<>>, top_docs |-> <<>>]

Init == WorkflowInit /\ PlannerIdle /\ CacheIdle /\ RaceIdle /\ RerankIdle /\ SearchIdle /\ RateIdle

Next == WorkflowNext /\ UNCHANGED <<pvars, cvars, rvars, kvars, svars, tvars>>

Spec == Init /\ [][Next]_vars

InitPlanner == PlannerInit /\ WorkflowIdle /\ CacheIdle /\ RaceIdle /\ RerankIdle /\ SearchIdle /\ RateIdle

NextPlanner == PlannerNext /\ UNCHANGED <<wvars, cvars, rvars, kvars, svars, tvars>>

SpecPlanner == InitPlanner /\ [][NextPlanner]_vars

InitCache == CacheInit /\ PlannerIdle /\ WorkflowIdle /\ RaceIdle /\ RerankIdle /\ SearchIdle /\ RateIdle

NextCache == CacheNext /\ UNCHANGED <<pvars, wvars, rvars, kvars, svars, tvars>>

SpecCache == InitCache /\ [][NextCache]_vars

InitRace == RaceInit /\ PlannerIdle /\ WorkflowIdle /\ CacheIdle /\ RerankIdle /\ SearchIdle /\ RateIdle

NextRace == RaceNext /\ UNCHANGED <<pvars, wvars, cvars, kvars, svars, tvars>>

SpecRace == InitRace /\ [][NextRace]_vars

InitRerank == RerankInit /\ PlannerIdle /\ WorkflowIdle /\ CacheIdle /\ RaceIdle /\ SearchIdle /\ RateIdle

NextRerank == RerankNext /\ UNCHANGED <<pvars, wvars, cvars, rvars, svars, tvars>>

SpecRerank == InitRerank /\ [][NextRerank]_vars

InitSearch == SearchInit /\ PlannerIdle /\ WorkflowIdle /\ CacheIdle /\ RaceIdle /\ RerankIdle /\ RateIdle

NextSearch == SearchNext /\ UNCHANGED <<pvars, wvars, cvars, rvars, kvars, tvars>>

SpecSearch == InitSearch /\ [][NextSearch]_vars

InitRate == RateInit /\ PlannerIdle /\ WorkflowIdle /\ CacheIdle /\ RaceIdle /\ RerankIdle /\ SearchIdle

NextRate == RateNext /\ UNCHANGED <<pvars, wvars, cvars, rvars, kvars, svars>>

SpecRate == InitRate /\ [][NextRate]_vars

(***************************************************************************)
(* Properties of the workflow (specification Spec)                         *)
(***************************************************************************)
Completed(a) == a \notin active /\ outcome[a] \in {"ok", "empty", "no_input"}

\* the agents whose task b's dependency list names
DependsOn(b) ==
    {a \in DOMAIN state.agent_tasks \ {b} :
        state.agent_tasks[a].task_id \in state.agent_tasks[b].dependencies}

\* C1: in the complex path an agent whose task lists dependencies is not
\* running unless every task named in its dependency list is done
C1_DependenciesRespected ==
    state.complexity = "complex" =>
        \A b \in active \cap DOMAIN state.agent_tasks :
            \A a \in DependsOn(b) : Completed(a)

\* a task fails when its agent raises or every provider it asked returned nothing
Failed(a) == a \notin active /\ outcome[a] \in {"empty", "no_input", "raised"}

\* C2: when a task fails, the tasks that depend on it are skipped: they
\* never run (that the run is not aborted either is C3)
C2_FailedDependencySkipsDependents ==
    state.complexity = "complex" =>
        \A b \in DOMAIN state.agent_tasks :
            \A a \in DependsOn(b) : Failed(a) => runs[b] = 0

\* C3: no exception raised in an agent node, a provider call or the synthesis
\* step propagates out of the workflow
C3_NoExceptionEscapes == status # "raised"

\* C4: when a complex run has reached END and no selected agent returned
\* evidence, the synthesizer was invoked on an empty evidence set and the run
\* has a final answer (that no exception ends the run instead is C3)
C4_AllFailedStillSynthesizes ==
    ( /\ status = "done"
      /\ state.complexity = "complex"
      /\ state.law_context = <<>>
      /\ state.case_context = <<>>
      /\ state.document_context = <<>> )
    => /\ synth.calls > 0
       /\ synth.all_docs = <<>>
       /\ state.final_answer # "unset"

\* C5: once the clarification check has set needs_clarification, no agent
\* node is executed in the run
C5_ClarificationSchedulesNoAgent ==
    state.needs_clarification => \A a \in AgentNodes : runs[a] = 0

(***************************************************************************)
(* Properties of the planner (specification SpecPlanner)                   *)
(***************************************************************************)
TaskIds(T) == {T[a].task_id : a \in DOMAIN T}

DepsResolve(T) == \A a \in DOMAIN T : T[a].dependencies \subseteq TaskIds(T)

\* the task ids reachable from the ids in S along at most n dependency edges
RECURSIVE Reach(_, _, _)
Reach(T, S, n) ==
    IF n = 0 THEN S
    ELSE Reach(T, S \cup UNION {T[a].dependencies : a \in {x \in DOMAIN T : T[x].task_id \in S}}, n - 1)

Acyclic(T) ==
    \A a \in DOMAIN T :
        T[a].task_id \notin Reach(T, T[a].dependencies, Cardinality(DOMAIN T))

\* C6: whatever the classifier returned, the task set of the decision is
\* acyclic and every dependency id is the task_id of a task of the set
C6_TaskGraphWellFormed ==
    p_pc.manager = "returned" =>
        DepsResolve(p_decision.agent_tasks) /\ Acyclic(p_decision.agent_tasks)

\* C7: the complexity of every decision the planner returns is "simple" or
\* "complex"
C7_ComplexityEnumerated ==
    /\ p_pc.manager = "returned" => p_decision.complexity \in {"simple", "complex"}
    /\ p_pc.router = "returned" => p_result.complexity \in {"simple", "complex"}

\* the well-formed classifier outputs: an object whose agent_tasks is a list
\* of objects and whose complexity is absent or a string
WellFormed(raw) ==
    /\ raw.kind = "dict"
    /\ raw.tasks_list
    /\ \A i \in 1..Len(raw.agent_tasks) : raw.agent_tasks[i].ok
    /\ raw.complexity # "null"

KnownKindItems(raw) ==
    {i \in 1..Len(raw.agent_tasks) : raw.agent_tasks[i].agent \in valid_agents}

C9_ComplexFallbackPair ==
    ( /\ p_pc.manager = "returned"
      /\ WellFormed(p_raw)
      /\ p_raw.complexity = "complex"
      /\ KnownKindItems(p_raw) = {} )
    => /\ p_decision.complexity = "complex"
       /\ p_decision.selected_agents = <<"law_agent", "case_agent">>
       /\ DOMAIN p_decision.agent_tasks = {"law_agent", "case_agent"}
       /\ \A a \in DOMAIN p_decision.agent_tasks :
             p_decision.agent_tasks[a].dependencies = {}
       /\ Range(route_to_agents(p_decision.selected_agents)) = {"law_agent", "case_agent"}

\* the classifier said complex and named unknown kinds only, and the router
\* node answered with the fallback pair
C9_Witness ==
    /\ p_pc.manager = "returned"
    /\ WellFormed(p_raw)
    /\ p_raw.complexity = "complex"
    /\ Len(p_raw.agent_tasks) > 0
    /\ KnownKindItems(p_raw) = {}
    /\ p_decision.agent_tasks["case_agent"].task_id = "case_fallback"

\* the classification call raised or returned malformed data
Malformed(raw) == ~WellFormed(raw)

DocumentsOf(ss, sid) == IF sid \in DOMAIN ss THEN ss[sid].documents ELSE <<>>

NoDuplicateTexts(docs) ==
    \A i, j \in 1..Len(docs) : i # j => TextOf(docs[i]) # TextOf(docs[j])

\* the documents a step appended to the sessions
AddedBy(before, after) ==
    { <<sid, i>> \in SessionIds \X (1..MaxDocs + MaxDocs) :
          /\ i > Len(DocumentsOf(before, sid))
          /\ i <= Len(DocumentsOf(after, sid)) }

\* the step is a call of add_documents: every other call writes its own name
\* into returned, and Tick moves the clock
AddDocumentsStep == returned'.op = "add_documents" /\ now' = now

\* what a call of add_documents does to the stored documents
AddStepDeduplicates ==
    AddDocumentsStep =>
        /\ \A sid \in SessionIds :
               LET before == DocumentsOf(sessions, sid)
                   after  == DocumentsOf(sessions', sid)
               IN  /\ Len(after) >= Len(before)
                   /\ SubSeq(after, 1, Len(before)) = before
                   /\ NoDuplicateTexts(after)
        /\ ~returned'.raised =>
               returned'.value = Cardinality(AddedBy(sessions, sessions'))

\* C11: in every session and after every sequence of add_documents calls no
\* two stored documents have the same text: a call keeps what is stored,
\* appends only documents whose text is not stored yet (once per text, also
\* within one call) and returns the number of documents it appended
C11_NoDuplicateTexts ==
    /\ [](\A sid \in DOMAIN sessions : NoDuplicateTexts(sessions[sid].documents))
    /\ [][AddStepDeduplicates]_vars

\* a call of add_documents skipped a document as a duplicate and returned 0
\* while a session holds one document
C11_Witness ==
    /\ returned.op = "add_documents"
    /\ returned.skipped > 0
    /\ returned.value = 0
    /\ ~returned.raised
    /\ \E sid \in DOMAIN sessions : Len(sessions[sid].documents) = 1

\* the step is a call of cleanup_expired
CleanupStep == returned'.op = "cleanup_expired" /\ now' = now

\* C13: cleanup_expired removes exactly the sessions idle for longer than the
\* TTL, with their hashes and their file association, and leaves what is
\* stored for every other session as it was: its documents, its hashes, its
\* file association and the cached chunks of its file
C13_CleanupRemovesExactlyExpired ==
    [][CleanupStep =>
        /\ DOMAIN sessions' = DOMAIN sessions \ Expired
        /\ DOMAIN hashes' = DOMAIN hashes \ Expired
        /\ DOMAIN file_paths' = DOMAIN file_paths \ Expired
        /\ returned'.value = Cardinality(Expired)
        /\ \A sid \in DOMAIN sessions \ Expired :
               /\ sessions'[sid] = sessions[sid]
               /\ hashes'[sid] = hashes[sid]
               /\ sid \in DOMAIN file_paths =>
                      /\ file_paths'[sid] = file_paths[sid]
                      /\ file_paths[sid] \in DOMAIN file_chunks =>
                             /\ file_paths[sid] \in DOMAIN file_chunks'
                             /\ file_chunks'[file_paths[sid]] = file_chunks[file_paths[sid]]
    ]_vars

(***************************************************************************)
(* Properties of concurrent add_documents calls (specification SpecRace)   *)
(***************************************************************************)
\* the texts of the documents a call was given
TextsOf(documents) == { TextOf(documents[i]) : i \in 1..Len(documents) } \ {""}

\* the texts the two calls were given and the session must end up holding
GivenTexts == UNION { TextsOf(thr[t].documents) : t \in Threads }

\* the two calls were given documents with a common text
Overlapping == TextsOf(thr["t1"].documents) \cap TextsOf(thr["t2"].documents) # {}

\* C12: when two threads call add_documents for the same session with
\* overlapping text, then whatever the interleaving neither call fails and,
\* once both are over, the session holds exactly one document per distinct
\* text
C12_ConcurrentAddsDeduplicate ==
    Overlapping =>
        /\ \A t \in Threads : thr[t].pc # "raised"
        /\ (\A t \in Threads : thr[t].pc = "returned") =>
               /\ r_sessions # 0
               /\ NoDuplicateTexts(r_dicts[r_sessions])
               /\ TextsOf(r_dicts[r_sessions]) = GivenTexts

(***************************************************************************)
(* Properties of the reranker (specification SpecRerank)                   *)
(***************************************************************************)
\* C14: whatever the query, the candidates and top_n (a count, 0 or more),
\* and whether the model is available, unavailable or fails while it
\* predicts, rerank_documents returns at most top_n elements
C14_AtMostTopN ==
    rr_result.returned => Len(rr_result.list) <= rr_call.top_n

\* a call whose prediction failed was given more than top_n candidates and
\* returned top_n of them
C14_Witness ==
    /\ rr_result.returned
    /\ rr_call.mode = "fails"
    /\ rr_call.top_n > 0
    /\ Len(rr_call.candidates) > rr_call.top_n
    /\ Len(rr_result.list) = rr_call.top_n

\* C15: when rerank_documents is called with a threshold, every fragment it
\* returns has a rerank_score of at least the threshold, in every mode
C15_ThresholdRespected ==
    (rr_result.returned /\ rr_call.threshold.given) =>
        \A i \in 1..Len(rr_result.list) :
            /\ rr_result.list[i].scored
            /\ rr_result.list[i].rerank_score >= rr_call.threshold.value

\* the identifiers of a list of candidates, in order
Ids(candidates) == [i \in 1..Len(candidates) |-> candidates[i].id]

\* C16: when the model is unavailable, rerank_documents returns exactly the
\* first top_n candidates of its input, in their original order
C16_UnavailablePassThrough ==
    (rr_result.returned /\ rr_call.mode = "unavailable") =>
        Ids(rr_result.list) = Ids(TopN(rr_call.candidates, rr_call.top_n))

\* without a model a call was given more than top_n candidates and returned
\* the first top_n
C16_Witness ==
    /\ rr_result.returned
    /\ rr_call.mode = "unavailable"
    /\ rr_call.top_n > 0
    /\ Len(rr_call.candidates) > rr_call.top_n
    /\ Len(rr_result.list) = rr_call.top_n
    /\ rr_result.list[1].id = rr_call.candidates[1].id

\* C17: when the model is unavailable or fails, every fragment
\* rerank_documents returns carries the neutral rerank_score 0.5
C17_NeutralScoreOnFallback ==
    (rr_result.returned /\ rr_call.mode \in {"unavailable", "fails"}) =>
        \A i \in 1..Len(rr_result.list) :
            /\ rr_result.list[i].scored
            /\ rr_result.list[i].rerank_score = NeutralScore

PrimaryAnswers == world.ddg \o (IF world.tavily_client THEN world.tavily ELSE <<>>)

\* the URLs among the primary providers' answers
PrimaryUrls == { PrimaryAnswers[i].url : i \in 1..Len(PrimaryAnswers) } \ {""}

\* the list keeps one entry per URL of the primary answers: for each URL the
\* first result that has it
OnePerUrl(results) ==
    /\ { results[i].url : i \in 1..Len(results) } = PrimaryUrls
    /\ \A i, j \in 1..Len(results) : i # j => results[i].url # results[j].url
    /\ \A i \in 1..Len(results) :
           \E k \in 1..Len(PrimaryAnswers) :
               /\ PrimaryAnswers[k].title = results[i].title
               /\ \A m \in 1..(k - 1) : PrimaryAnswers[m].url # results[i].url

\* the merged list and the fallback chain of WebSearchTool.run: one entry per
\* URL of the primary answers, and the lower-priority providers, Serper
\* first, called if and only if the merged list is empty
MergedThenFallback ==
    /\ (ws.pc \in {"serper", "scrape", "done"} /\ "_serper_search" \notin ws.calls) =>
           OnePerUrl(ws.unique_results)
    /\ ws.pc \in {"scrape", "done"} =>
           ("_serper_search" \in ws.calls <=> PrimaryUrls = {})
    /\ "_google_serp_search" \in ws.calls => PrimaryUrls = {}

ProviderName(result) ==
    CASE result.title[1] = "ddg" -> "DuckDuckGo"
      [] result.title[1] = "tavily" -> "Tavily"
      [] result.title[1] = "serper" -> "Serper"
      [] result.title[1] = "google" -> "Google SERP"

\* C20: every fragment WebSearchTool.run returns carries an origin tag that
\* names the provider that produced it, also the results of the fallback
\* providers
C20_ResultsTaggedWithOrigin ==
    ws.pc = "done" =>
        \A i \in 1..Len(ws.unique_results) :
            ws.unique_results[i].source = ProviderName(ws.unique_results[i])

(***************************************************************************)
(* The synthesizer's candidates                                            *)
(***************************************************************************)
\* the evidence the agents of the run have returned: the fragments of the
\* context channels ("no_citation_data" is the entry of a citation agent
\* that found nothing)
ReturnedEvidence ==
    Range(state.law_context) \cup Range(state.case_context) \cup
    Range(state.document_context) \cup
    (Range(state.citation_context) \ {"no_citation_data"})

\* C21: once generate_response has been called, the candidates it reranked
\* contain every fragment of evidence an agent of the run returned
C21_CandidatesContainAllEvidence ==
    synth.calls > 0 => ReturnedEvidence \subseteq Range(synth.all_docs)

NoDuplicates(docs) == \A i, j \in 1..Len(docs) : i # j => docs[i] # docs[j]

\* agent a has returned the fragment its search found
ReturnedFragment(a) ==
    a \in {"law_agent", "research_agent", "strategy_agent"} /\ outcome[a] = "ok"

\* C22: when two agents of the run have returned the same fragment, the
\* context generate_response builds from the reranked candidates holds no
\* fragment twice
C22_NoDuplicateFragments ==
    (/\ synth.calls > 0
     /\ \E a, b \in AgentNodes : a # b /\ ReturnedFragment(a) /\ ReturnedFragment(b))
    => NoDuplicates(synth.top_docs)

(***************************************************************************)
(* The simple path                                                         *)
(***************************************************************************)
\* the planner's decision is simple with a single task
SimpleSingleTask ==
    /\ state.complexity = "simple"
    /\ Len(state.selected_agents) = 1
    /\ DOMAIN state.agent_tasks = {state.selected_agents[1]}

\* the agent nodes that have been started in the run
StartedAgents == {a \in AgentNodes : runs[a] > 0}

C24_MinimumDelayPerInstance ==
    \A s \in Scrapers : \A i, j \in 1..Len(fetched[s]) :
        i < j => fetched[s][j] - fetched[s][i] >= SCRAPE_DELAY_SECONDS

(***************************************************************************)
(* The router / document agent cycle                                       *)
(***************************************************************************)
\* C25: the document agent is started at most once in a run, also when it
\* returned no chunk
C25_DocumentAgentRunsAtMostOnce == runs["document_agent"] <= 1

(***************************************************************************)
(* The end of a run                                                        *)
(***************************************************************************)
\* C26: the final state of a run that reached END has final_answer set
C26_FinalAnswerAtEnd == status = "done" => state.final_answer # "unset"

\* C27: memory_store is started at most once in a run and only when the
\* final answer has been written; a run that reached END has started it
C27_MemoryStoreOnceAfterAnswer ==
    /\ runs["memory_store"] <= 1
    /\ runs["memory_store"] > 0 => state.final_answer # "unset"
    /\ status = "done" => runs["memory_store"] = 1

(***************************************************************************)
(* The instructions of the agents                                          *)
(***************************************************************************)
\* agent a of a complex run was assigned a non-empty instruction by the
\* router and has returned
AssignedAndReturned(a) ==
    /\ state.complexity = "complex"
    /\ a \in DOMAIN state.agent_tasks
    /\ state.agent_tasks[a].instruction # ""
    /\ outcome[a] # "none"

\* C28: an agent that was assigned a non-empty instruction does not return
\* for want of input, without performing its retrieval
C28_AssignedAgentRetrieves ==
    \A a \in AgentNodes : AssignedAndReturned(a) => outcome[a] # "no_input"

(***************************************************************************)
(* Several tasks for one agent kind                                        *)
(***************************************************************************)
\* the decision holds the i-th task of the classifier output under its
\* agent, with the task_id, instruction and dependencies it came with
Retained(i) ==
    LET t == p_raw.agent_tasks[i]
    IN  /\ FullName(t.agent) \in DOMAIN p_decision.agent_tasks
        /\ p_decision.agent_tasks[FullName(t.agent)] =
              [task_id |-> t.task_id, instruction |-> t.instruction,
               dependencies |-> t.dependencies]

\* C29: the decision of the router node retains every task of known agent
\* kind as it was emitted, and selected_agents names no agent twice
C29_EveryTaskRetainedOnce ==
    (p_pc.manager = "returned" /\ WellFormed(p_raw)) =>
        /\ \A i \in KnownKindItems(p_raw) : Retained(i)
        /\ NoDuplicates(p_decision.selected_agents)

(***************************************************************************)
(* The hashes and the documents of a session                               *)
(***************************************************************************)
HashesOfDocuments(docs) == { docs[i].hash : i \in 1..Len(docs) }

\* C30: the sessions map and the hashes map have the same keys, and the
\* hashes recorded for a session are those of its stored documents
C30_HashesMatchDocuments ==
    /\ DOMAIN sessions = DOMAIN hashes
    /\ \A sid \in DOMAIN sessions :
          hashes[sid] = HashesOfDocuments(sessions[sid].documents)

====
